---- MODULE Spec2Model ----
(***************************************************************************)
(* Model of the chat page of src/chatbot-v.js (component App): the         *)
(* message-submission pipeline handleSendMessage with its helpers          *)
(* sendBotResponse, saveTrainingData and getBotResponse, the live          *)
(* subscription to the chat_history collection and the authentication      *)
(* effect.                                                                 *)
(*                                                                         *)
(* A text is a sequence of atoms.  Text the user types is a sequence of    *)
(* one-character strings, so that trim, startsWith, substring, split,      *)
(* replace and toLowerCase are computed character by character.  The       *)
(* literal messages of the program are never taken apart by it and are     *)
(* one atom each.                                                          *)
(***************************************************************************)
EXTENDS Integers, Sequences, FiniteSets, TLC

\* ------------------------------------------------------------------ bounds
\* ChatMessages in the Conversation Store plus external calls that failed;
\* a submission is taken while two more fit (it adds at most two messages)
MaxHistory == 5
\* external calls that fail in one behaviour
MaxFailures == 2

\* ------------------------------------------------------------- characters
QUOTE == "\""
SPACE == " "

\* ---------------------------------------------------------------- strings
\* String.prototype.trim: leading and trailing white space removed.
RECURSIVE TrimLeft(_)
TrimLeft(s) ==
    IF s # <<>> /\ Head(s) = SPACE THEN TrimLeft(Tail(s)) ELSE s

RECURSIVE TrimRight(_)
TrimRight(s) ==
    IF s # <<>> /\ s[Len(s)] = SPACE
    THEN TrimRight(SubSeq(s, 1, Len(s) - 1))
    ELSE s

Trim(s) == TrimRight(TrimLeft(s))

\* String.prototype.startsWith
StartsWith(s, p) == Len(s) >= Len(p) /\ SubSeq(s, 1, Len(p)) = p

\* String.prototype.substring(n): the text after its first n characters.
Substring(s, n) == SubSeq(s, n + 1, Len(s))

\* String.prototype.split(sep), sep not empty: the pieces between the
\* occurrences of sep, found left to right without overlap.
RECURSIVE Split(_, _)
Split(s, sep) ==
    IF Len(s) < Len(sep) THEN <<s>>
    ELSE LET hits == {i \in 1..(Len(s) - Len(sep) + 1) :
                         SubSeq(s, i, i + Len(sep) - 1) = sep}
         IN IF hits = {} THEN <<s>>
            ELSE LET i == CHOOSE k \in hits : \A j \in hits : k <= j
                 IN <<SubSeq(s, 1, i - 1)>>
                        \o Split(SubSeq(s, i + Len(sep), Len(s)), sep)

\* String.prototype.replace(/"/g, ''): every double quote removed.
RECURSIVE StripQuotes(_)
StripQuotes(s) ==
    IF s = <<>> THEN <<>>
    ELSE IF Head(s) = QUOTE THEN StripQuotes(Tail(s))
         ELSE <<Head(s)>> \o StripQuotes(Tail(s))

\* String.prototype.toLowerCase on the letters of the model's alphabet.
LowerChar(c) ==
    CASE c = "A" -> "a"
      [] c = "B" -> "b"
      [] OTHER -> c

ToLowerCase(s) == [i \in 1..Len(s) |-> LowerChar(s[i])]

\* ------------------------------------------------------- program literals
\* '/teach ' and '/clear', the prefixes tested at lines 104 and 114
TEACH_PREFIX == <<"/", "t", "e", "a", "c", "h", " ">>
CLEAR_PREFIX == <<"/", "c", "l", "e", "a", "r">>
\* '" "', the separator of line 105
TEACH_SEPARATOR == <<QUOTE, SPACE, QUOTE>>

MSG_ACK == <<"Acknowledged. I've noted that for future reference.">>
MSG_INVALID_TEACH == <<"Invalid /teach command. Use: /teach \"question\" \"answer\"">>
MSG_CLEARED == <<"Chat history cleared.">>
MSG_OOPS == <<"Oops! Something went wrong. Please try again.">>
MSG_REPHRASE == <<"I'm not sure how to respond to that. Can you rephrase?">>
MSG_TROUBLE == <<"I'm sorry, I'm having trouble connecting right now. Please try again later.">>

\* the fixed parts of the prompt of line 166
PROMPT_PREAMBLE == <<"You are a blank chatbot being trained. Here's some training data I've provided you:\n">>
PROMPT_MIDDLE == <<"\n\nBased on our conversation history and the training data, please respond to the following:\n">>

\* the value of text when parts[0] has no text property
UNDEFINED == <<"undefined">>
\* useState(null) of userId
NULL == "null"
UID == "u1"

\* ----------------------------------------------------- /teach and dispatch
\* line 105: the pieces of the text after '/teach '
TeachParts(userMessage) ==
    Split(Substring(userMessage, Len(TEACH_PREFIX)), TEACH_SEPARATOR)

\* lines 107 and 108
TeachQuestion(userMessage) == StripQuotes(TeachParts(userMessage)[1])
TeachAnswer(userMessage) == StripQuotes(TeachParts(userMessage)[2])

\* lines 104-121: the branch handleSendMessage takes after the user message
\* is stored
BranchTeachNoSpace(userMessage) ==
    IF StartsWith(userMessage, SubSeq(TEACH_PREFIX, 1, Len(TEACH_PREFIX) - 1))
    THEN IF Len(TeachParts(userMessage)) = 2 THEN "teach" ELSE "teachInvalid"
    ELSE IF StartsWith(userMessage, CLEAR_PREFIX) THEN "clear"
    ELSE "infer"

Branch(userMessage) ==
    IF StartsWith(userMessage, TEACH_PREFIX)
    THEN IF Len(TeachParts(userMessage)) = 2 THEN "teach" ELSE "teachInvalid"
    ELSE IF StartsWith(userMessage, CLEAR_PREFIX) THEN "clear"
    ELSE "infer"

\* ------------------------------------------------------- Knowledge Store
\* line 143: the document id of a training pair
TrainingDocIdNoLowerCase(question) == question

TrainingDocId(question) == ToLowerCase(question)

\* lines 144-148: the fields written
TrainingDoc(question, answer) ==
    [id |-> TrainingDocId(question), question |-> question, answer |-> answer]

\* setDoc(ref, data, {merge: true}) of the store: the document with this id
\* gets the fields written (all the fields a document has here), a new id
\* adds a document.
SetDoc(docs, d) ==
    IF \E i \in 1..Len(docs) : docs[i].id = d.id
    THEN [i \in 1..Len(docs) |-> IF docs[i].id = d.id THEN d ELSE docs[i]]
    ELSE Append(docs, d)

\* --------------------------------------------------- Inference Endpoint
\* The parsed body of the endpoint's response (result, line 180).  A missing
\* property is a has* flag that is FALSE.
Part(t) == [hasText |-> TRUE, text |-> t]
PartNoText == [hasText |-> FALSE, text |-> UNDEFINED]
Candidate(ps) == [hasContent |-> TRUE, hasParts |-> TRUE, parts |-> ps]
CandidateNoContent == [hasContent |-> FALSE, hasParts |-> FALSE, parts |-> <<>>]
CandidateNoParts == [hasContent |-> TRUE, hasParts |-> FALSE, parts |-> <<>>]
Result(cs) == [hasCandidates |-> TRUE, candidates |-> cs]
ResultNoCandidates == [hasCandidates |-> FALSE, candidates |-> <<>>]

HELLO == <<"h", "e", "l", "l", "o">>
OTHER_TEXT == <<"o", "t", "h", "e", "r">>

\* the responses the endpoint gives in the model
Results ==
    { Result(<<Candidate(<<Part(HELLO)>>)>>),
      Result(<<Candidate(<<Part(HELLO), Part(OTHER_TEXT)>>),
               Candidate(<<Part(OTHER_TEXT)>>)>>),
      ResultNoCandidates,
      Result(<<>>),
      Result(<<CandidateNoContent>>),
      Result(<<CandidateNoParts>>),
      Result(<<Candidate(<<>>)>>),
      Result(<<Candidate(<<>>), Candidate(<<Part(OTHER_TEXT)>>)>>),
      Result(<<Candidate(<<PartNoText>>)>>) }

\* lines 182-184
HasAnswer(result) ==
    /\ result.hasCandidates
    /\ Len(result.candidates) > 0
    /\ result.candidates[1].hasContent
    /\ result.candidates[1].hasParts
    /\ Len(result.candidates[1].parts) > 0

\* line 185
BotTextLastPart(result) ==
    LET ps == result.candidates[1].parts
    IN IF ps[Len(ps)].hasText THEN ps[Len(ps)].text ELSE UNDEFINED

BotText(result) ==
    LET p == result.candidates[1].parts[1]
    IN IF p.hasText THEN p.text ELSE UNDEFINED

\* lines 159-170: the contents sent to the endpoint
TurnRoleIsSender(msg) == [role |-> msg.sender, text |-> msg.text]

Turn(msg) ==
    [role |-> IF msg.sender = "user" THEN "user" ELSE "model", text |-> msg.text]

RECURSIVE JoinLines(_)
JoinLines(lines) ==
    IF lines = <<>> THEN <<>>
    ELSE IF Len(lines) = 1 THEN lines[1]
    ELSE lines[1] \o <<"\n">> \o JoinLines(Tail(lines))

\* line 165
TrainingLine(data) ==
    <<"User asked \"">> \o data.question \o <<"\", I responded \"">>
        \o data.answer \o <<"\".">>

TrainingContext(docs) ==
    JoinLines([i \in 1..Len(docs) |-> TrainingLine(docs[i])])

\* line 166
Prompt(docs, userMessage) ==
    PROMPT_PREAMBLE \o TrainingContext(docs) \o PROMPT_MIDDLE \o userMessage

\* lines 159-168
ChatHistoryForLLM(msgs, docs, userMessage) ==
    Append([i \in 1..Len(msgs) |-> Turn(msgs[i])],
           [role |-> "user", text |-> Prompt(docs, userMessage)])

\* line 185-186: addDoc refuses a field whose value is undefined
BotTextDefined(result) == result.candidates[1].parts[1].hasText

\* ------------------------------------------------------------ user input
Quoted(s) == <<QUOTE>> \o s \o <<QUOTE>>

\* what the user types into the message box in the model
Inputs ==
    { <<SPACE, "h", "i", SPACE>>,
      <<SPACE>>,
      TEACH_PREFIX \o Quoted(<<"A">>) \o <<SPACE>> \o Quoted(<<"b">>),
      TEACH_PREFIX \o Quoted(<<"a">>) \o <<SPACE>> \o Quoted(<<"c">>),
      TEACH_PREFIX \o <<"A", SPACE, "b">>,
      TEACH_PREFIX \o Quoted(<<"A">>),
      TEACH_PREFIX \o Quoted(<<"A">>) \o <<SPACE>> \o Quoted(<<"b">>)
          \o <<SPACE>> \o Quoted(<<"c">>),
      TEACH_PREFIX \o <<"A", QUOTE, SPACE, QUOTE, "b">>,
      TEACH_PREFIX,
      CLEAR_PREFIX,
      CLEAR_PREFIX \o <<"x">> }

\* ------------------------------------------------------------------ state
VARIABLES
    db,             \* useState db: TRUE once getFirestore's handle is set
    userId,         \* useState userId
    isAuthReady,    \* useState isAuthReady
    authPc,         \* where the authentication effect is
    messages,       \* useState messages: the visible transcript
    newMessage,     \* useState newMessage: the message box
    isLoading,      \* useState isLoading: the busy flag
    chat_history,   \* the Conversation Store's collection, in timestamp order
    training_data,  \* the Knowledge Store's collection
    pc,             \* the await handleSendMessage is suspended at
    userMessage,    \* const userMessage of the running handleSendMessage
    closureMessages,\* messages as the running handleSendMessage closed over it
    pendingText,    \* the text of the addDoc sendBotResponse is awaiting
    ctx,            \* the block sendBotResponse was called from
    payload,        \* payload.contents of the request awaiting its response
    submitted,      \* the message box's value when the last submission was accepted
    log,            \* the external calls of the last accepted submission
    escaped,        \* the last handleSendMessage ended with a rejection
    nFailures       \* failed external calls so far

vars == <<db, userId, isAuthReady, authPc, messages, newMessage, isLoading,
          chat_history, training_data, pc, userMessage, closureMessages,
          pendingText, ctx, payload, submitted, log, escaped, nFailures>>

authVars == <<db, userId, isAuthReady, authPc>>
pipeVars == <<pc, userMessage, closureMessages, pendingText, ctx, payload,
              submitted, log, escaped>>

\* one external call of a submission, as log records it: the operation, the
\* text written (or, for fetch, what the response holds), whether it resolved
Call(op, text, ok) == [op |-> op, text |-> text, ok |-> ok, note |-> ""]
Response(text, note) == [op |-> "fetch", text |-> text, ok |-> TRUE, note |-> note]

\* lines 13-19
Init ==
    /\ db = FALSE
    /\ userId = NULL
    /\ isAuthReady = FALSE
    /\ authPc = "start"
    /\ messages = <<>>
    /\ newMessage = <<>>
    /\ isLoading = FALSE
    /\ chat_history = <<>>
    /\ training_data = <<>>
    /\ pc = "idle"
    /\ userMessage = <<>>
    /\ closureMessages = <<>>
    /\ pendingText = <<>>
    /\ ctx = "none"
    /\ payload = <<>>
    /\ submitted = <<>>
    /\ log = <<>>
    /\ escaped = FALSE
    /\ nFailures = 0

\* ------------------------------------------------- authentication effect
\* lines 24-31, 53-56: initializeApp, getFirestore, getAuth
InitializeFirebase ==
    /\ authPc = "start"
    /\ \/ /\ db' = TRUE
          /\ authPc' = "listening"
          /\ UNCHANGED isAuthReady
       \/ /\ isAuthReady' = TRUE
          /\ authPc' = "initFailed"
          /\ UNCHANGED db
    /\ UNCHANGED <<userId, messages, newMessage, isLoading, chat_history,
                   training_data, nFailures>>
    /\ UNCHANGED pipeVars

\* lines 33-36: the listener is called with a user, one already signed in
\* when the page loads or the one the sign-in produced
OnAuthStateChangedUser ==
    /\ authPc \in {"listening", "signedInPending"}
    /\ userId' = UID
    /\ isAuthReady' = TRUE
    /\ authPc' = "signedIn"
    /\ UNCHANGED <<db, messages, newMessage, isLoading, chat_history,
                   training_data, nFailures>>
    /\ UNCHANGED pipeVars

\* lines 37-44: the listener is called with no user and starts the sign-in
OnAuthStateChangedNull ==
    /\ authPc = "listening"
    /\ authPc' = "signingIn"
    /\ UNCHANGED <<db, userId, isAuthReady, messages, newMessage, isLoading,
                   chat_history, training_data, nFailures>>
    /\ UNCHANGED pipeVars

\* lines 41-44: the sign-in is accepted
SignInResolved ==
    /\ authPc = "signingIn"
    /\ authPc' = "signedInPending"
    /\ UNCHANGED <<db, userId, isAuthReady, messages, newMessage, isLoading,
                   chat_history, training_data, nFailures>>
    /\ UNCHANGED pipeVars

\* line 47
SignInFailureReadyKept == isAuthReady

SignInFailureReady == TRUE

\* lines 45-48: the sign-in is rejected
SignInRejected ==
    /\ authPc = "signingIn"
    /\ isAuthReady' = SignInFailureReady
    /\ authPc' = "signInFailed"
    /\ UNCHANGED <<db, userId, messages, newMessage, isLoading, chat_history,
                   training_data, nFailures>>
    /\ UNCHANGED pipeVars

\* ---------------------------------------------------- live subscription
\* line 61: the effect subscribes once all three are set
SubscribedNoIdentity == db /\ isAuthReady

Subscribed == db /\ userId # NULL /\ isAuthReady

\* lines 97-101, 133-137, 258: a document addDoc has handed to the store
\* client and the store has not answered for yet; the view renders it
\* with 'Sending...' in place of its time
PendingWrites ==
    CASE pc = "awaitUserAdd" -> <<[sender |-> "user", text |-> userMessage]>>
      [] pc = "awaitBotAdd" -> <<[sender |-> "bot", text |-> pendingText]>>
      [] OTHER -> <<>>

\* lines 63-66: what the query over the collection holds for this client,
\* in the order of the timestamps: the documents the store accepted, then
\* the one this client is still sending
QueryAcceptedOnly == chat_history

QueryResult == chat_history \o PendingWrites

\* lines 67-73: a snapshot of the collection arrives
OnSnapshot ==
    /\ Subscribed
    /\ messages' = QueryResult
    /\ UNCHANGED <<newMessage, isLoading, chat_history, training_data,
                   nFailures>>
    /\ UNCHANGED authVars
    /\ UNCHANGED pipeVars

\* ------------------------------------------------------------ message box
\* lines 202-208: the form is rendered once isAuthReady; lines 284 and 289:
\* the input and the button are disabled while isLoading
FormNeverDisabled == isAuthReady

FormEnabled == isAuthReady /\ ~isLoading

\* line 281: onChange
OnChange(text) ==
    /\ FormEnabled
    /\ Len(chat_history) + nFailures + 2 <= MaxHistory
    /\ newMessage' = text
    /\ UNCHANGED <<messages, isLoading, chat_history, training_data, nFailures>>
    /\ UNCHANGED authVars
    /\ UNCHANGED pipeVars

\* --------------------------------------------------- message pipeline
\* line 92
UserMessageUntrimmed(raw) == raw

UserMessage(raw) == Trim(raw)

\* lines 97-101 and 133-137: the document addDoc writes
ChatMessage(sender, text) == [sender |-> sender, text |-> text]

\* lines 97 and 133: addDoc adds the document under a new id, after the
\* documents the collection holds
AddDocFixedId(docs, d) ==
    IF docs = <<>> THEN <<d>> ELSE [docs EXCEPT ![Len(docs)] = d]

AddDoc(docs, d) == Append(docs, d)

\* lines 125-127: the finally block
FinallyIsLoadingKept == isLoading

FinallyIsLoading == FALSE

\* lines 125-128: the finally block runs and handleSendMessage ends; its
\* locals are gone
Finally ==
    /\ isLoading' = FinallyIsLoading
    /\ pc' = "idle"
    /\ userMessage' = <<>>
    /\ closureMessages' = <<>>
    /\ pendingText' = <<>>
    /\ ctx' = "none"
    /\ payload' = <<>>

\* an await of an external call: handleSendMessage is suspended at it
Await(call) ==
    /\ pc' = call
    /\ UNCHANGED <<userMessage, closureMessages, pendingText, ctx, payload,
                   isLoading>>

\* lines 131-138: sendBotResponse called from block `from`; every call of
\* it is the last statement of its block, so that a return from it is
\* followed by the finally block
SendBotResponse(text, from) ==
    IF ~db \/ userId = NULL
    THEN Finally
    ELSE /\ pc' = "awaitBotAdd"
         /\ pendingText' = text
         /\ ctx' = from
         /\ UNCHANGED <<userMessage, closureMessages, payload, isLoading>>

\* lines 122-124: the catch block of handleSendMessage
CatchSilent == Finally

Catch == SendBotResponse(MSG_OOPS, "catch")

\* lines 191-193: the catch block of getBotResponse
InferCatchSilent == Finally
InferCatchRethrow == Catch
InferCatchRetry ==
    /\ pc' = "awaitFetch"
    /\ UNCHANGED <<userMessage, closureMessages, pendingText, ctx, payload,
                   isLoading>>

InferCatch == SendBotResponse(MSG_TROUBLE, "inferCatch")

\* lines 187-189: the response holds no answer
OnNoAnswerThrow == InferCatch

OnNoAnswer == SendBotResponse(MSG_REPHRASE, "inferTry")

\* line 116
SetMessagesKept == messages

SetMessagesEmpty == <<>>

\* lines 141-149: saveTrainingData up to its await
SaveTrainingData ==
    IF ~db \/ userId = NULL
    THEN SendBotResponse(MSG_ACK, "try")
    ELSE Await("awaitSetDoc")

\* line 89: the guard of handleSendMessage
SubmitRefusedUntrimmed == newMessage = <<>> \/ ~db \/ userId = NULL

SubmitRefused == Trim(newMessage) = <<>> \/ ~db \/ userId = NULL

\* lines 87-93: the form is submitted
HandleSendMessage ==
    /\ FormEnabled
    /\ IF SubmitRefused
       THEN UNCHANGED vars
       ELSE /\ Len(chat_history) + nFailures + 2 <= MaxHistory
            /\ isLoading' = TRUE
            /\ userMessage' = UserMessage(newMessage)
            /\ newMessage' = <<>>
            /\ closureMessages' = messages
            /\ submitted' = newMessage
            /\ log' = <<>>
            /\ escaped' = FALSE
            /\ pc' = "awaitUserAdd"
            /\ UNCHANGED <<messages, chat_history, training_data, pendingText,
                           ctx, payload, nFailures>>
            /\ UNCHANGED authVars

\* what the steps of a running handleSendMessage leave alone
PipeFrame ==
    /\ UNCHANGED <<newMessage, submitted>>
    /\ UNCHANGED authVars

\* what the response holds, as the log records it
ResponseText(result) ==
    IF /\ result.hasCandidates
       /\ Len(result.candidates) > 0
       /\ result.candidates[1].hasContent
       /\ result.candidates[1].hasParts
       /\ Len(result.candidates[1].parts) > 0
       /\ result.candidates[1].parts[1].hasText
    THEN result.candidates[1].parts[1].text
    ELSE <<>>

ResponseNote(result) ==
    IF \/ ~result.hasCandidates
       \/ Len(result.candidates) = 0
       \/ ~result.candidates[1].hasContent
       \/ ~result.candidates[1].hasParts
       \/ Len(result.candidates[1].parts) = 0
    THEN "noAnswer"
    ELSE IF result.candidates[1].parts[1].hasText THEN "answer" ELSE "noText"

\* lines 97-121: addDoc of the user message resolves, and the branch runs
\* up to its first await
UserAddResolved ==
    /\ pc = "awaitUserAdd"
    /\ chat_history' = AddDoc(chat_history, ChatMessage("user", userMessage))
    /\ CASE Branch(userMessage) = "teach" ->
              /\ SaveTrainingData
              /\ log' = Append(log, Call("addUser", userMessage, TRUE))
              /\ UNCHANGED messages
         [] Branch(userMessage) = "teachInvalid" ->
              /\ SendBotResponse(MSG_INVALID_TEACH, "try")
              /\ log' = Append(log, Call("addUser", userMessage, TRUE))
              /\ UNCHANGED messages
         [] Branch(userMessage) = "clear" ->
              /\ messages' = SetMessagesEmpty
              /\ SendBotResponse(MSG_CLEARED, "try")
              /\ log' = log \o <<Call("addUser", userMessage, TRUE),
                                 Call("setMessages", <<>>, TRUE)>>
         [] Branch(userMessage) = "infer" ->
              /\ Await("awaitGetDocs")
              /\ log' = Append(log, Call("addUser", userMessage, TRUE))
              /\ UNCHANGED messages
    /\ UNCHANGED <<training_data, escaped, nFailures>>
    /\ PipeFrame

\* lines 97-101, 122-124: addDoc of the user message rejects
UserAddRejected ==
    /\ pc = "awaitUserAdd"
    /\ nFailures < MaxFailures
    /\ nFailures' = nFailures + 1
    /\ log' = Append(log, Call("addUser", userMessage, FALSE))
    /\ Catch
    /\ UNCHANGED <<messages, chat_history, training_data, escaped>>
    /\ PipeFrame

\* lines 144-148, 110: setDoc resolves
SetDocResolved ==
    /\ pc = "awaitSetDoc"
    /\ training_data' =
          SetDoc(training_data,
                 TrainingDoc(TeachQuestion(userMessage), TeachAnswer(userMessage)))
    /\ log' = Append(log, Call("setDoc", TeachAnswer(userMessage), TRUE))
    /\ SendBotResponse(MSG_ACK, "try")
    /\ UNCHANGED <<messages, chat_history, escaped, nFailures>>
    /\ PipeFrame

\* lines 144-148, 122-124: setDoc rejects
SetDocRejected ==
    /\ pc = "awaitSetDoc"
    /\ nFailures < MaxFailures
    /\ nFailures' = nFailures + 1
    /\ log' = Append(log, Call("setDoc", TeachAnswer(userMessage), FALSE))
    /\ Catch
    /\ UNCHANGED <<messages, chat_history, training_data, escaped>>
    /\ PipeFrame

\* line 159: messages in getBotResponse is the value the render that made
\* this handleSendMessage held, not the state at the time of the call
LoadedTranscriptLive == messages

LoadedTranscript == closureMessages

\* lines 156-178: getDocs resolves, the request is built and sent
GetDocsResolved ==
    /\ pc = "awaitGetDocs"
    /\ payload' = ChatHistoryForLLM(LoadedTranscript, training_data, userMessage)
    /\ pc' = "awaitFetch"
    /\ log' = Append(log, Call("getDocs", <<>>, TRUE))
    /\ UNCHANGED <<userMessage, closureMessages, pendingText, ctx, isLoading>>
    /\ UNCHANGED <<messages, chat_history, training_data, escaped, nFailures>>
    /\ PipeFrame

\* lines 156, 191-193: getDocs rejects
GetDocsRejectedIgnored ==
    /\ pc = "awaitGetDocs"
    /\ nFailures < MaxFailures
    /\ nFailures' = nFailures + 1
    /\ log' = Append(log, Call("getDocs", <<>>, FALSE))
    /\ payload' = ChatHistoryForLLM(LoadedTranscript, <<>>, userMessage)
    /\ pc' = "awaitFetch"
    /\ UNCHANGED <<userMessage, closureMessages, pendingText, ctx, isLoading>>
    /\ UNCHANGED <<messages, chat_history, training_data, escaped>>
    /\ PipeFrame

GetDocsRejected ==
    /\ pc = "awaitGetDocs"
    /\ nFailures < MaxFailures
    /\ nFailures' = nFailures + 1
    /\ log' = Append(log, Call("getDocs", <<>>, FALSE))
    /\ InferCatch
    /\ UNCHANGED <<messages, chat_history, training_data, escaped>>
    /\ PipeFrame

\* lines 174-190: fetch and response.json() resolve with result.  A part
\* without text makes addDoc throw before any request to the store, which
\* the catch block of getBotResponse catches.
FetchResolved(result) ==
    /\ pc = "awaitFetch"
    /\ IF HasAnswer(result)
       THEN IF BotTextDefined(result)
            THEN /\ SendBotResponse(BotText(result), "inferTry")
                 /\ log' = Append(log, Response(ResponseText(result),
                                                ResponseNote(result)))
            ELSE /\ InferCatch
                 /\ log' = log \o <<Response(ResponseText(result),
                                             ResponseNote(result)),
                                    Call("addBot", UNDEFINED, FALSE)>>
       ELSE /\ OnNoAnswer
            /\ log' = Append(log, Response(ResponseText(result),
                                           ResponseNote(result)))
    /\ UNCHANGED <<messages, chat_history, training_data, escaped, nFailures>>
    /\ PipeFrame

\* lines 174-180, 191-193: fetch rejects, or response.json() does (a body
\* that is not JSON), or line 182 throws (a body that is JSON null)
FetchRejected ==
    /\ pc = "awaitFetch"
    /\ nFailures < MaxFailures
    /\ nFailures' = nFailures + 1
    /\ log' = Append(log, Call("fetch", <<>>, FALSE))
    /\ InferCatch
    /\ UNCHANGED <<messages, chat_history, training_data, escaped>>
    /\ PipeFrame

\* lines 133-137: addDoc of a bot message resolves
BotAddResolved ==
    /\ pc = "awaitBotAdd"
    /\ chat_history' = AddDoc(chat_history, ChatMessage("bot", pendingText))
    /\ log' = Append(log, Call("addBot", pendingText, TRUE))
    /\ Finally
    /\ UNCHANGED <<messages, training_data, escaped, nFailures>>
    /\ PipeFrame

\* lines 133-137: addDoc of a bot message rejects; the rejection goes to the
\* catch block around the call, and out of handleSendMessage (after the
\* finally block) when the call was made by its catch block
BotAddRejected ==
    /\ pc = "awaitBotAdd"
    /\ nFailures < MaxFailures
    /\ nFailures' = nFailures + 1
    /\ log' = Append(log, Call("addBot", pendingText, FALSE))
    /\ CASE ctx = "try" -> Catch /\ UNCHANGED escaped
         [] ctx = "inferTry" -> InferCatch /\ UNCHANGED escaped
         [] ctx = "inferCatch" -> Catch /\ UNCHANGED escaped
         [] ctx = "catch" -> Finally /\ escaped' = TRUE
    /\ UNCHANGED <<messages, chat_history, training_data>>
    /\ PipeFrame

\* ------------------------------------------------------- specifications
\* a pending external call of handleSendMessage resolves or rejects
Settle ==
    \/ UserAddResolved
    \/ UserAddRejected
    \/ SetDocResolved
    \/ SetDocRejected
    \/ GetDocsResolved
    \/ GetDocsRejected
    \/ \E result \in Results : FetchResolved(result)
    \/ FetchRejected
    \/ BotAddResolved
    \/ BotAddRejected

Next ==
    \/ InitializeFirebase
    \/ OnAuthStateChangedUser
    \/ OnAuthStateChangedNull
    \/ SignInResolved
    \/ SignInRejected
    \/ OnSnapshot
    \/ \E text \in Inputs : OnChange(text)
    \/ HandleSendMessage
    \/ Settle

Spec == Init /\ [][Next]_vars

\* every external call eventually returns or fails
FairSpec == Spec /\ WF_vars(Settle)

\* =================================================================
\* Properties
\* =================================================================
\* the last accepted submission has finished
Done == pc = "idle" /\ log # <<>>

\* the last accepted submission made this call
Called(op) == \E i \in 1..Len(log) : log[i].op = op

\* the Conversation Store rejected a bot message of the last submission
BotWriteRejected ==
    \E i \in 1..Len(log) :
        log[i].op = "addBot" /\ ~log[i].ok /\ log[i].text # UNDEFINED

\* an external call of the last submission failed
AnyRejected == \E i \in 1..Len(log) : ~log[i].ok

\* the documents the last submission added to the Conversation Store
NewDocs ==
    LET n == Cardinality({i \in 1..Len(log) :
                             log[i].op \in {"addUser", "addBot"} /\ log[i].ok})
    IN SubSeq(chat_history, Len(chat_history) - n + 1, Len(chat_history))

IsBot(d) == d.sender = "bot"
IsUser(d) == d.sender = "user"
BotDocs == SelectSeq(NewDocs, IsBot)
UserDocs == SelectSeq(NewDocs, IsUser)

\* the question and answer segments of the grammar /teach "<q>" "<a>":
\* texts without a double quote
Segments == {<<>>} \cup {<<x>> : x \in {"A", "a", "B", "b", "c"}}

\* text is /teach "q" "a"
IsTeachOf(text, q, a) ==
    text = TEACH_PREFIX \o Quoted(q) \o <<SPACE>> \o Quoted(a)

WellFormedTeach(text) == \E q \in Segments, a \in Segments : IsTeachOf(text, q, a)

\* C1: every accepted submission first asks the Conversation Store to add
\* one ChatMessage {sender: user, text: the trimmed input}; nothing else of
\* the submission (upsert, transcript clear, Knowledge Store read, endpoint
\* call, bot message) comes before it, no second user message is written,
\* and when the store rejects it no branch runs at all.
C1_UserMessageFirst ==
    /\ pc = "awaitUserAdd" => log = <<>>
    /\ (submitted # <<>> /\ pc # "awaitUserAdd") =>
          /\ log # <<>>
          /\ log[1].op = "addUser"
          /\ log[1].text = Trim(submitted)
          /\ \A i \in 2..Len(log) : log[i].op # "addUser"
          /\ log[1].ok =>
                /\ NewDocs # <<>>
                /\ NewDocs[1] = [sender |-> "user", text |-> Trim(submitted)]
                /\ Len(UserDocs) = 1
          /\ ~log[1].ok =>
                /\ UserDocs = <<>>
                /\ \A i \in 2..Len(log) :
                      log[i].op = "addBot" /\ log[i].text = MSG_OOPS

C1_Witness ==
    /\ Done
    /\ submitted # Trim(submitted)
    /\ Called("fetch")
    /\ Len(NewDocs) = 2
    /\ NewDocs[1] = [sender |-> "user", text |-> <<"h", "i">>]

\* C2: an Inference Turn (a submission that reads the Knowledge Store) ends
\* with exactly one bot ChatMessage added after its user ChatMessage,
\* whether the read and the endpoint call succeed or fail, provided the
\* Conversation Store accepts the bot message; in no case does it add two.
C2_OneBotMessagePerInferenceTurn ==
    Called("getDocs") =>
        /\ Len(BotDocs) <= 1
        /\ pc # "idle" => BotDocs = <<>>
        /\ (Done /\ ~BotWriteRejected) =>
              /\ Len(NewDocs) = 2
              /\ IsUser(NewDocs[1])
              /\ IsBot(NewDocs[2])

C2_Witness ==
    /\ Done
    /\ \E i \in 1..Len(log) : log[i].op = "getDocs" /\ ~log[i].ok
    /\ Len(BotDocs) = 1
    /\ Len(NewDocs) = 2

\* C3: when the response holds a text at candidates[0].content.parts[0],
\* the bot message asked of the store has that text, and the one bot
\* ChatMessage the turn adds is that text (the store accepting it).
C3_FirstCandidateFirstPart ==
    \A i \in 1..Len(log) :
        (log[i].op = "fetch" /\ log[i].ok /\ log[i].note = "answer") =>
            /\ (pc = "awaitBotAdd" /\ i = Len(log)) => pendingText = log[i].text
            /\ (Done /\ ~BotWriteRejected) =>
                  BotDocs = <<[sender |-> "bot", text |-> log[i].text]>>

C3_Witness ==
    /\ Done
    /\ \E i \in 1..Len(log) :
          log[i].op = "fetch" /\ log[i].note = "answer" /\ log[i].text = HELLO
    /\ BotDocs = <<[sender |-> "bot", text |-> HELLO]>>

\* C4: when the response has no candidates, an empty candidates list, a
\* first candidate without content or without parts, or an empty parts
\* list, the one bot ChatMessage the turn adds is the "rephrase" fallback
\* (the store accepting it), and nothing is thrown out of getBotResponse:
\* the catch block of handleSendMessage sends no message.
C4_RephraseOnShapeMismatch ==
    \A i \in 1..Len(log) :
        (log[i].op = "fetch" /\ log[i].ok /\ log[i].note = "noAnswer") =>
            /\ (pc = "awaitBotAdd" /\ i = Len(log)) => pendingText = MSG_REPHRASE
            /\ (Done /\ ~BotWriteRejected) =>
                  /\ BotDocs = <<[sender |-> "bot", text |-> MSG_REPHRASE]>>
                  /\ \A j \in 1..Len(log) : log[j].text # MSG_OOPS
                  /\ ~escaped

C4_Witness ==
    /\ Done
    /\ \E i \in 1..Len(log) : log[i].op = "fetch" /\ log[i].note = "noAnswer"
    /\ BotDocs = <<[sender |-> "bot", text |-> MSG_REPHRASE]>>
    /\ ~escaped

\* C5: when fetch or response.json() throws, the one bot ChatMessage the
\* turn adds is the "trouble connecting" fallback (the store accepting it),
\* and the "something went wrong" message is not sent.
C5_TroubleOnTransportFailure ==
    \A i \in 1..Len(log) :
        (log[i].op = "fetch" /\ ~log[i].ok) =>
            /\ (pc = "awaitBotAdd" /\ i = Len(log)) => pendingText = MSG_TROUBLE
            /\ (Done /\ ~BotWriteRejected) =>
                  /\ BotDocs = <<[sender |-> "bot", text |-> MSG_TROUBLE]>>
                  /\ \A j \in 1..Len(log) : log[j].text # MSG_OOPS

C5_Witness ==
    /\ Done
    /\ \E i \in 1..Len(log) : log[i].op = "fetch" /\ ~log[i].ok
    /\ BotDocs = <<[sender |-> "bot", text |-> MSG_TROUBLE]>>

\* the TrainingPairs stored under the lower-cased question key
PairsOf(docs, key) ==
    {i \in 1..Len(docs) : ToLowerCase(docs[i].question) = key}

C6_State ==
    /\ \A i, j \in 1..Len(training_data) :
          ToLowerCase(training_data[i].question)
              = ToLowerCase(training_data[j].question) => i = j
    /\ \A q \in Segments, a \in Segments :
          (/\ IsTeachOf(Trim(submitted), q, a)
           /\ \E i \in 1..Len(log) : log[i].op = "setDoc" /\ log[i].ok) =>
              /\ \E i \in PairsOf(training_data, ToLowerCase(q)) :
                    /\ training_data[i].question = q
                    /\ training_data[i].answer = a
              /\ (Done /\ ~BotWriteRejected) =>
                    BotDocs = <<[sender |-> "bot", text |-> MSG_ACK]>>

C6_Step ==
    training_data' # training_data =>
        /\ pc = "awaitSetDoc"
        /\ \E k \in {ToLowerCase(training_data'[i].question) :
                        i \in 1..Len(training_data')} :
              \A i \in 1..Len(training_data) :
                  ToLowerCase(training_data[i].question) # k =>
                      /\ i <= Len(training_data')
                      /\ training_data'[i] = training_data[i]

\* C6: the Knowledge Store never holds two TrainingPairs whose questions
\* lower-case to the same key; once the store has accepted the upsert of a
\* submission /teach "q" "a", the pair under the lower-cased q has question
\* q and answer a, and the submission ends with the acknowledgement as its
\* one bot message; an upsert changes the pair of one key and no other, so
\* the answer under a key is that of the latest accepted /teach for it.
C6_TeachUpserts == [](C6_State) /\ [][C6_Step]_vars

C6_Witness ==
    /\ Done
    /\ IsTeachOf(Trim(submitted), <<"a">>, <<"c">>)
    /\ training_data = <<[id |-> <<"a">>, question |-> <<"a">>, answer |-> <<"c">>]>>
    /\ Len(chat_history) = 4
    /\ chat_history[1].text = TEACH_PREFIX \o Quoted(<<"A">>) \o <<SPACE>> \o Quoted(<<"b">>)
    /\ chat_history[2].text = MSG_ACK
    /\ chat_history[4].text = MSG_ACK

\* C7 (as claimed): a submission that starts with '/teach ' and whose rest is
\* not "q" "a" never upserts a TrainingPair, and ends with the usage message
\* as its one bot message (the store accepting it).
C7_MalformedTeachRefused ==
    (/\ log # <<>>
     /\ StartsWith(Trim(submitted), TEACH_PREFIX)
     /\ ~WellFormedTeach(Trim(submitted))) =>
        /\ ~Called("setDoc")
        /\ (Done /\ ~AnyRejected) =>
              BotDocs = <<[sender |-> "bot", text |-> MSG_INVALID_TEACH]>>

C8_State ==
    (log # <<>> /\ Trim(submitted) = CLEAR_PREFIX /\ log[1].ok) =>
        /\ ~Called("setDoc")
        /\ ~Called("getDocs")
        /\ ~Called("fetch")
        /\ Len(BotDocs) <= 1
        /\ (Done /\ ~BotWriteRejected) =>
              NewDocs = <<[sender |-> "user", text |-> CLEAR_PREFIX],
                          [sender |-> "bot", text |-> MSG_CLEARED]>>

C8_Step ==
    (/\ pc = "awaitUserAdd"
     /\ Trim(submitted) = CLEAR_PREFIX
     /\ chat_history' # chat_history) =>
        /\ messages' = <<>>
        /\ training_data' = training_data
        /\ pc' = "awaitBotAdd"
        /\ pendingText' = MSG_CLEARED

\* C8: the step of a /clear submission that follows its user message sets
\* the visible transcript to the empty list and asks the store for the
\* confirmation message, which is the one bot message of the submission (the
\* store accepting it); the submission writes no TrainingPair, reads none
\* and does not call the endpoint.
C8_ClearEmptiesTranscript == [](C8_State) /\ [][C8_Step]_vars

C8_Witness ==
    /\ Done
    /\ Trim(submitted) = CLEAR_PREFIX
    /\ Len(chat_history) = 4
    /\ chat_history[4] = [sender |-> "bot", text |-> MSG_CLEARED]
    /\ messages = <<>>

\* C9 (as claimed): no handleSendMessage ends with a rejection.
C9_NoFailureEscapes == ~escaped

\* C10: the busy flag is true exactly while a call of handleSendMessage is
\* pending, and, every pending call resolving or rejecting in the end, a
\* busy flag that is true becomes false again.
C10_BusyFlagReset ==
    /\ [](isLoading <=> pc # "idle")
    /\ (isLoading ~> ~isLoading)

C10_Witness ==
    /\ escaped
    /\ ~isLoading
    /\ pc = "idle"

\* a step that starts a run of handleSendMessage past its guard
StartsRun == pc' = "awaitUserAdd" /\ pc # "awaitUserAdd"

\* C11: while a run of handleSendMessage has not finished the busy flag is
\* true and the form is disabled, and a run starts only when no run is
\* pending: at most one submission is in flight.
C11_SingleFlight ==
    /\ [](pc # "idle" => (isLoading /\ ~FormEnabled))
    /\ [][StartsRun => (pc = "idle" /\ ~isLoading)]_vars

C11_Witness ==
    /\ pc = "awaitFetch"
    /\ isLoading
    /\ ~FormEnabled
    /\ Len(chat_history) = 3

\* the first n messages of the view are the first n of the store
StorePrefix(n) ==
    /\ n <= Len(chat_history)
    /\ n <= Len(messages)
    /\ \A i \in 1..n : messages[i] = chat_history[i]

\* C12 (as the code has it): the view changes only to the empty list or to
\* what the subscription delivers, which is the documents the store accepted
\* followed by the document this client is still sending; so every message
\* of the view but at most its last one has been accepted by the store, and
\* no step of handleSendMessage puts a message into the view.
C12_ViewIsSnapshotOrEmpty ==
    /\ [](StorePrefix(Len(messages)) \/ StorePrefix(Len(messages) - 1))
    /\ [][messages' # messages =>
             \/ messages' = <<>>
             \/ messages' = chat_history \o PendingWrites]_vars

\* C12 (as stated): every message of the view has been accepted by the
\* store.
C12_AcceptedBeforeShown == StorePrefix(Len(messages))

C12_Witness ==
    /\ pc = "awaitBotAdd"
    /\ Len(chat_history) = 1
    /\ messages = chat_history \o <<[sender |-> "bot", text |-> pendingText]>>

\* the text in the message box is empty or white space only
Blank(text) == \A i \in 1..Len(text) : text[i] = SPACE

\* C13: a submit of an empty or white-space-only text, or one made while
\* userId or db is not set, is a no-op: in a state where a submit would be
\* such a one, no step writes to a store, calls the endpoint, starts a run
\* or changes the busy flag, and the submit itself leaves the message box
\* and the view as they are.
C13_RefusedSubmitIsNoOp ==
    [][(pc = "idle" /\ (Blank(newMessage) \/ ~db \/ userId = NULL)) =>
          /\ pc' = "idle"
          /\ UNCHANGED <<chat_history, training_data, log, isLoading>>
          /\ HandleSendMessage => UNCHANGED <<newMessage, messages>>]_vars

C13_Witness ==
    /\ FormEnabled
    /\ ENABLED HandleSendMessage
    /\ ~Blank(newMessage)
    /\ userId = NULL
    /\ log = <<>>
    /\ chat_history = <<>>

\* the three outcomes of the authentication effect: a user is reported, the
\* sign-in is rejected, the initialization throws
AuthOutcomes == {"signedIn", "signInFailed", "initFailed"}

\* C14: isAuthReady starts false, is true exactly when one of the three
\* outcomes has happened, and once true is never false again.
C14_ReadinessLatch ==
    /\ ~isAuthReady
    /\ [](isAuthReady <=> authPc \in AuthOutcomes)
    /\ [][isAuthReady => isAuthReady']_vars
    /\ [][(authPc \notin AuthOutcomes /\ authPc' \in AuthOutcomes) =>
              (~isAuthReady /\ isAuthReady')]_vars

C14_Witness ==
    /\ isAuthReady
    /\ authPc = "signInFailed"
    /\ userId = NULL

\* text begins with the characters of prefix
HasPrefix(text, prefix) ==
    /\ Len(text) >= Len(prefix)
    /\ \A i \in 1..Len(prefix) : text[i] = prefix[i]

\* the branch the prefix of the trimmed text selects
BranchOfPrefix(text) ==
    IF HasPrefix(text, <<"/", "t", "e", "a", "c", "h", SPACE>>) THEN "teach"
    ELSE IF HasPrefix(text, <<"/", "c", "l", "e", "a", "r">>) THEN "clear"
    ELSE "infer"

\* the last accepted submission tried to write a bot message with this text
BotWriteTried(text) ==
    \/ \E i \in 1..Len(log) : log[i].op = "addBot" /\ log[i].text = text
    \/ pc = "awaitBotAdd" /\ pendingText = text

\* the branches the last accepted submission has entered so far
BranchesRun ==
    {b \in {"teach", "clear", "infer"} :
        \/ /\ b = "teach"
           /\ \/ pc = "awaitSetDoc"
              \/ Called("setDoc")
              \/ BotWriteTried(MSG_ACK)
              \/ BotWriteTried(MSG_INVALID_TEACH)
        \/ /\ b = "clear"
           /\ \/ Called("setMessages")
              \/ BotWriteTried(MSG_CLEARED)
        \/ /\ b = "infer"
           /\ \/ pc \in {"awaitGetDocs", "awaitFetch"}
              \/ Called("getDocs")
              \/ BotWriteTried(MSG_REPHRASE)
              \/ BotWriteTried(MSG_TROUBLE)}

\* the Conversation Store accepted the user message of the last submission
UserWriteAccepted == log # <<>> /\ log[1].op = "addUser" /\ log[1].ok

\* C15: a submission enters no branch but the one the prefix of its trimmed
\* text selects ('/teach ' first, then '/clear', else the Inference Turn),
\* and has entered it once its user message is stored; a run goes from idle
\* to the write of the user message, from there to the branch, and back to
\* idle.
C15_OneBranchByPrefix ==
    /\ [](BranchesRun \subseteq {BranchOfPrefix(Trim(submitted))})
    /\ [](UserWriteAccepted =>
             BranchesRun = {BranchOfPrefix(Trim(submitted))})
    /\ [](pc = "awaitUserAdd" => BranchesRun = {})
    /\ [][(pc = "idle" /\ pc' # "idle") => pc' = "awaitUserAdd"]_vars
    /\ [][(pc' \in {"awaitSetDoc", "awaitGetDocs"} /\ pc' # pc) =>
              pc = "awaitUserAdd"]_vars

C15_Witness ==
    /\ Done
    /\ submitted = <<"/", "t", "e", "a", "c", "h", SPACE>>
    /\ BranchesRun = {"infer"}
    /\ Called("fetch")
    /\ ~AnyRejected

\* how many times the last accepted submission has made this call, the
\* pending one included
TimesCalled(op, at) ==
    Cardinality({i \in 1..Len(log) : log[i].op = op})
        + (IF pc = at THEN 1 ELSE 0)

\* the store writes of the last accepted submission, in the order made, the
\* pending one included
WritesTried ==
    LET IsWrite(c) == c.op \in {"addUser", "addBot", "setDoc"}
        made == SelectSeq(log, IsWrite)
    IN CASE pc = "awaitUserAdd" ->
              Append(made, Call("addUser", userMessage, TRUE))
         [] pc = "awaitBotAdd" ->
              Append(made, Call("addBot", pendingText, TRUE))
         [] pc = "awaitSetDoc" ->
              Append(made, Call("setDoc", TeachAnswer(userMessage), TRUE))
         [] OTHER -> made

\* C16: within one submission the endpoint is called at most once and the
\* Knowledge Store is read at most once, whatever fails; a submission that
\* starts with '/teach ' or '/clear' never calls the endpoint; and a store
\* write that failed is not made a second time.
C16_NoRetry ==
    /\ TimesCalled("fetch", "awaitFetch") <= 1
    /\ TimesCalled("getDocs", "awaitGetDocs") <= 1
    /\ BranchOfPrefix(Trim(submitted)) \in {"teach", "clear"} =>
           TimesCalled("fetch", "awaitFetch") = 0
    /\ \A i, j \in 1..Len(WritesTried) :
           (i < j /\ ~WritesTried[i].ok) =>
               \/ WritesTried[j].op # WritesTried[i].op
               \/ WritesTried[j].text # WritesTried[i].text

C16_Witness ==
    /\ Done
    /\ \E i \in 1..Len(log) : log[i].op = "fetch" /\ ~log[i].ok
    /\ \E i \in 1..Len(log) : log[i].op = "addBot" /\ ~log[i].ok
    /\ TimesCalled("fetch", "awaitFetch") = 1
    /\ TimesCalled("getDocs", "awaitGetDocs") = 1

\* s occurs in t as a run of consecutive elements
Occurs(s, t) ==
    \E k \in 0..(Len(t) - Len(s)) : SubSeq(t, k + 1, k + Len(s)) = s

\* t ends with s
EndsWith(t, s) ==
    /\ Len(t) >= Len(s)
    /\ SubSeq(t, Len(t) - Len(s) + 1, Len(t)) = s

\* C17: the turn list sent to the endpoint has one turn per ChatMessage of
\* the transcript the run of handleSendMessage holds (the view at the
\* submit), in its order, tagged user for a user message and model
\* otherwise, then one last turn tagged user whose text holds every training
\* pair and ends with the new user message; its length is |transcript| + 1.
C17_TurnList ==
    /\ [](pc = "awaitFetch" =>
            /\ Len(payload) = Len(closureMessages) + 1
            /\ \A i \in 1..Len(closureMessages) :
                  /\ payload[i].text = closureMessages[i].text
                  /\ closureMessages[i].sender = "user" =>
                         payload[i].role = "user"
                  /\ closureMessages[i].sender # "user" =>
                         payload[i].role = "model"
            /\ payload[Len(payload)].role = "user"
            /\ EndsWith(payload[Len(payload)].text, Trim(submitted))
            /\ \A d \in 1..Len(training_data) :
                  /\ Occurs(training_data[d].question,
                            payload[Len(payload)].text)
                  /\ Occurs(training_data[d].answer,
                            payload[Len(payload)].text))
    /\ [][StartsRun => closureMessages' = messages]_vars

C17_Witness ==
    /\ pc = "awaitFetch"
    /\ Len(closureMessages) = 2
    /\ closureMessages[1].sender = "user"
    /\ closureMessages[2].sender = "bot"
    /\ Len(training_data) = 1
    /\ Len(payload) = 3

\* C18: no step deletes or changes a ChatMessage of the Conversation Store:
\* after every step, /clear and the deliveries of the subscription included,
\* the store holds the ChatMessages it held, with the same sender and text
\* and in the same order, followed by those the step added.
C18_StoreAppendOnly ==
    [][/\ Len(chat_history') >= Len(chat_history)
       /\ \A i \in 1..Len(chat_history) :
             /\ chat_history'[i].sender = chat_history[i].sender
             /\ chat_history'[i].text = chat_history[i].text]_vars

C18_Witness ==
    /\ Done
    /\ Called("setMessages")
    /\ messages = <<>>
    /\ Len(chat_history) = 4
    /\ chat_history[3].text = <<"/", "c", "l", "e", "a", "r">>
    /\ chat_history[4].text = MSG_CLEARED

\* C19: once the sign-in is rejected isAuthReady is true and userId stays
\* null, no snapshot is ever delivered (the subscription is not opened),
\* and no step, a submit included, writes to a store, calls the endpoint,
\* starts a run or changes the view: only the text of the message box can
\* change.
C19_DegradedSession ==
    /\ [](authPc = "signInFailed" =>
            /\ isAuthReady
            /\ userId = NULL
            /\ ~ENABLED OnSnapshot
            /\ pc = "idle"
            /\ ~isLoading
            /\ log = <<>>
            /\ chat_history = <<>>
            /\ training_data = <<>>)
    /\ [][authPc = "signInFailed" =>
             UNCHANGED <<authPc, isAuthReady, userId, pc, isLoading, log,
                         chat_history, training_data, messages>>]_vars

C19_Witness ==
    /\ authPc = "signInFailed"
    /\ db
    /\ isAuthReady
    /\ ENABLED HandleSendMessage
    /\ newMessage = <<SPACE, "h", "i", SPACE>>

\* how many ChatMessages the store held before the last accepted submission
\* wrote to it
StoredBefore == Len(chat_history) - Len(NewDocs)

\* C20: once a /clear submission has completed, the view shows no
\* ChatMessage written before it, whatever the subscription has delivered
\* during or after the submission.
C20_ClearedHistoryNotShown ==
    (Done /\ Called("setMessages")) =>
        \A i \in 1..Len(messages) :
            i <= StoredBefore => messages[i] # chat_history[i]

\* the texts of the turns of the request before its last turn
TranscriptTurnTexts ==
    [i \in 1..(Len(payload) - 1) |-> payload[i].text]

\* C21: a run of handleSendMessage holds the transcript that was in the view
\* when the submit was accepted and no delivery during the run changes it;
\* the turns of the request before the last one are the messages of that
\* transcript, so that the new user message, though a delivery may have put
\* it into the view meanwhile, is in the request in its last turn only.
C21_TranscriptAsOfSubmit ==
    /\ [][StartsRun => closureMessages' = messages]_vars
    /\ [][(pc # "idle" /\ pc' # "idle") =>
             closureMessages' = closureMessages]_vars
    /\ [](pc = "awaitFetch" =>
            /\ TranscriptTurnTexts =
                  [i \in 1..Len(closureMessages) |-> closureMessages[i].text]
            /\ EndsWith(payload[Len(payload)].text, userMessage))

C21_Witness ==
    /\ pc = "awaitFetch"
    /\ messages = chat_history
    /\ Len(messages) = Len(closureMessages) + 1
    /\ messages[Len(messages)] = [sender |-> "user", text |-> userMessage]
    /\ Len(payload) = Len(messages)
    /\ Len(closureMessages) = 2

\* the Conversation Store rejected the user message of the last accepted
\* submission
UserWriteRejected == log # <<>> /\ log[1].op = "addUser" /\ ~log[1].ok

\* C22: when the write of the user message fails no branch runs (no
\* training pair is written, the view is not emptied, the Knowledge Store is
\* not read, the endpoint is not called); the one thing the run still does
\* is one attempt to write the "Oops!" message, and when that attempt has
\* returned or failed the run is over with the busy flag reset.
C22_UserWriteFailure ==
    /\ [](UserWriteRejected =>
            /\ BranchesRun = {}
            /\ \A i \in 2..Len(log) :
                  log[i].op = "addBot" /\ log[i].text = MSG_OOPS
            /\ \/ /\ pc = "awaitBotAdd"
                  /\ pendingText = MSG_OOPS
                  /\ Len(log) = 1
                  /\ isLoading
               \/ /\ pc = "idle"
                  /\ Len(log) = 2
                  /\ ~isLoading)
    /\ [][(pc = "awaitUserAdd" /\ UserWriteRejected') =>
             UNCHANGED <<messages, training_data, chat_history>>]_vars
    /\ [][(UserWriteRejected /\ messages' # messages) =>
             messages' = chat_history \o PendingWrites]_vars

C22_Witness ==
    /\ UserWriteRejected
    /\ pc = "idle"
    /\ log[2] = Call("addBot", MSG_OOPS, TRUE)
    /\ chat_history = <<[sender |-> "bot", text |-> MSG_OOPS]>>
    /\ ~isLoading

\* reading the Knowledge Store failed in the last accepted submission
KnowledgeReadFailed ==
    \E i \in 1..Len(log) : log[i].op = "getDocs" /\ ~log[i].ok

\* C23: when getDocs fails in an Inference Turn the endpoint is not called
\* for that submission, the bot message the turn asks the store to add is
\* the "trouble connecting" text, and that message is the one bot
\* ChatMessage the submission adds (the store accepting it); the "something
\* went wrong" text is not sent.
C23_TroubleOnKnowledgeReadFailure ==
    KnowledgeReadFailed =>
        /\ TimesCalled("fetch", "awaitFetch") = 0
        /\ payload = <<>>
        /\ BranchOfPrefix(Trim(submitted)) = "infer"
        /\ (pc = "awaitBotAdd" /\ log[Len(log)].op = "getDocs") =>
               pendingText = MSG_TROUBLE
        /\ (Done /\ ~BotWriteRejected) =>
               /\ BotDocs = <<[sender |-> "bot", text |-> MSG_TROUBLE]>>
               /\ ~BotWriteTried(MSG_OOPS)

C23_Witness ==
    /\ Done
    /\ KnowledgeReadFailed
    /\ ~Called("fetch")
    /\ Len(log) = 3
    /\ log[3] = Call("addBot", MSG_TROUBLE, TRUE)
    /\ chat_history[Len(chat_history)] = [sender |-> "bot", text |-> MSG_TROUBLE]

====
